---- MODULE Spec2Model ----
(***************************************************************************)
(* Model of scripts/build-roster.py: fetch the roster CSV, parse the       *)
(* member records, render the roster rows and write roster.html.           *)
(*                                                                         *)
(* A Python str is a sequence of one-character strings, so that strip,     *)
(* split, replace, int() and the substring test are computed character by  *)
(* character the way the interpreter computes them.                        *)
(***************************************************************************)
EXTENDS Integers, Sequences, FiniteSets, TLC

VARIABLES
    pc,          \* position of main(): start, fetched, parsed, rendered, opened, or
                 \* how it ended: fetch_error, no_members, raised, exit_ok;
                 \* render, render_done, date, date_done for a single call
    csv_text,    \* main's csv_text, the text fetch_csv returned
    members,     \* main's members, the list parse_members returned
    html,        \* main's html, the document generate_html returned
    roster_file, \* content of roster.html in the working directory
    exit_code,   \* status the process ends with; NoExit while it runs
    member,      \* argument of one render_member_row call
    row,         \* what that call returned
    date_str,    \* argument of one format_date call
    date_out     \* what that call returned

vars == <<pc, csv_text, members, html, roster_file, exit_code,
          member, row, date_str, date_out>>

(***************************************************************************)
(* Bounds of the explored inputs.                                          *)
(***************************************************************************)
MaxRows == 2      \* data rows after the header row
MaxLead == 2      \* lines before the header row
MaxDateLen == 6   \* length of the exhaustively enumerated join dates
MaxTextLen == 3   \* length of the exhaustively enumerated escaped texts

(***************************************************************************)
(* Python values that are not strings.                                     *)
(***************************************************************************)
None == <<"None">>          \* csv.DictReader's restval
NoExit == -1                \* the process has not ended
NoDoc == [count_text |-> <<>>, member_rows |-> <<>>]    \* no document yet
Absent == [kind |-> "absent", doc |-> NoDoc]       \* roster.html does not exist
OldDoc == [kind |-> "old", doc |-> NoDoc]          \* as an earlier run left it
Truncated == [kind |-> "truncated", doc |-> NoDoc] \* opened with "w", nothing written
Written(doc) == [kind |-> "written", doc |-> doc]  \* doc written and closed

(***************************************************************************)
(* str methods.                                                            *)
(***************************************************************************)
Whitespace == {" ", "\t", "\n"}

RECURSIVE lstrip(_)
lstrip(s) ==
    IF s # <<>> /\ Head(s) \in Whitespace THEN lstrip(Tail(s)) ELSE s

RECURSIVE rstrip(_)
rstrip(s) ==
    IF s # <<>> /\ s[Len(s)] \in Whitespace
    THEN rstrip(SubSeq(s, 1, Len(s) - 1))
    ELSE s

strip(s) == rstrip(lstrip(s))

\* s.split(sep) for a one-character separator.
RECURSIVE split(_, _)
split(s, sep) ==
    IF \A i \in 1..Len(s) : s[i] # sep
    THEN <<s>>
    ELSE LET i == CHOOSE j \in 1..Len(s) :
                    s[j] = sep /\ \A k \in 1..(j - 1) : s[k] # sep
         IN  <<SubSeq(s, 1, i - 1)>> \o split(SubSeq(s, i + 1, Len(s)), sep)

\* sep.join(parts)
RECURSIVE join(_, _)
join(parts, sep) ==
    IF parts = <<>> THEN <<>>
    ELSE IF Len(parts) = 1 THEN parts[1]
    ELSE parts[1] \o sep \o join(Tail(parts), sep)

\* s.splitlines(): the line boundary is dropped and a final boundary opens no
\* further line.
splitlines(s) ==
    LET ps == split(s, "\n")
    IN  IF ps[Len(ps)] = <<>> THEN SubSeq(ps, 1, Len(ps) - 1) ELSE ps

\* tok in s
Contains(s, tok) ==
    \E i \in 1..(Len(s) - Len(tok) + 1) : SubSeq(s, i, i + Len(tok) - 1) = tok

\* s.replace(old, new) for a one-character old.
RECURSIVE replace(_, _, _)
replace(s, old, new) ==
    IF s = <<>> THEN <<>>
    ELSE (IF Head(s) = old THEN new ELSE <<Head(s)>>) \o replace(Tail(s), old, new)

Lower == <<"a","b","c","d","e","f","g","h","i","j","k","l","m",
           "n","o","p","q","r","s","t","u","v","w","x","y","z">>
UpperCase == <<"A","B","C","D","E","F","G","H","I","J","K","L","M",
               "N","O","P","Q","R","S","T","U","V","W","X","Y","Z">>

upperChar(c) ==
    IF \E i \in 1..Len(Lower) : Lower[i] = c
    THEN UpperCase[CHOOSE i \in 1..Len(Lower) : Lower[i] = c]
    ELSE c

\* s.upper()
upper(s) == [i \in 1..Len(s) |-> upperChar(s[i])]

(***************************************************************************)
(* int(s) and str(n).                                                      *)
(***************************************************************************)
Digits == <<"0","1","2","3","4","5","6","7","8","9">>

IsDigit(c) == \E i \in 1..Len(Digits) : Digits[i] = c

DigitVal(c) == (CHOOSE i \in 1..Len(Digits) : Digits[i] = c) - 1

\* The literal int() reads: surrounding whitespace is ignored, one sign may
\* lead, the rest is digits.  (int() also takes single underscores between
\* digits and non-ASCII digits; no explored text holds either.)
IntBody(s) ==
    LET t == strip(s)
    IN  IF t # <<>> /\ Head(t) \in {"+", "-"} THEN Tail(t) ELSE t

\* int(s) returns; otherwise it raises ValueError.
IsInt(s) ==
    /\ IntBody(s) # <<>>
    /\ \A i \in 1..Len(IntBody(s)) : IsDigit(IntBody(s)[i])

RECURSIVE DigitsValue(_)
DigitsValue(ds) ==
    IF ds = <<>> THEN 0
    ELSE 10 * DigitsValue(SubSeq(ds, 1, Len(ds) - 1)) + DigitVal(ds[Len(ds)])

int(s) ==
    LET t == strip(s)
    IN  IF Head(t) = "-" THEN 0 - DigitsValue(IntBody(s)) ELSE DigitsValue(IntBody(s))

RECURSIVE NatStr(_)
NatStr(n) ==
    IF n < 10 THEN <<Digits[n + 1]>>
    ELSE NatStr(n \div 10) \o <<Digits[(n % 10) + 1]>>

\* str(n), as an f-string formats an int
str(n) == IF n < 0 THEN <<"-">> \o NatStr(0 - n) ELSE NatStr(n)

(***************************************************************************)
(* Literals of the program.                                                *)
(***************************************************************************)
MONTHS == << <<"J","a","n">>, <<"F","e","b">>, <<"M","a","r">>, <<"A","p","r">>,
             <<"M","a","y">>, <<"J","u","n">>, <<"J","u","l">>, <<"A","u","g">>,
             <<"S","e","p">>, <<"O","c","t">>, <<"N","o","v">>, <<"D","e","c">> >>

KeyCallsign == <<"C","a","l","l","s","i","g","n">>
KeyName == <<"N","a","m","e">>
KeyJoinDate == <<"J","o","i","n"," ","D","a","t","e">>
KeyQC == <<"Q","C"," ","#">>
TechCallsign == <<"W","6","J","S","V">>

(***************************************************************************)
(* format_date and html_escape.                                            *)
(***************************************************************************)
format_date(d) ==
    LET parts == split(d, "/")
    IN  IF Len(parts) # 3 THEN d
        ELSE IF ~IsInt(parts[1]) \/ ~IsInt(parts[2]) THEN d   \* ValueError: pass
        ELSE LET month == int(parts[1]) - 1
                 day == int(parts[2])
                 year == parts[3]
             IN  IF 0 <= month /\ month < 12
                 THEN MONTHS[month + 1] \o <<" ">> \o str(day) \o <<",", " ">> \o year
                 ELSE d

\* html_escape that replaces & last: the & of the entities just produced is
\* escaped again.
html_escape_amp_last(text) ==
    replace(replace(replace(replace(text,
        "<", <<"&","l","t",";">>),
        ">", <<"&","g","t",";">>),
        "\"", <<"&","q","u","o","t",";">>),
        "&", <<"&","a","m","p",";">>)

html_escape(text) ==
    replace(replace(replace(replace(text,
        "&", <<"&","a","m","p",";">>),
        "<", <<"&","l","t",";">>),
        ">", <<"&","g","t",";">>),
        "\"", <<"&","q","u","o","t",";">>)

(***************************************************************************)
(* csv.DictReader over the text from the header row on.  The rows are      *)
(* split on commas; the explored texts hold no quote character.            *)
(***************************************************************************)
CsvRow(line) == IF line = <<>> THEN <<>> ELSE split(line, ",")

\* dict(zip(fieldnames, r)), the fields r lacks set to restval.
DictRow(fieldnames, r) ==
    [k \in {fieldnames[i] : i \in 1..Len(fieldnames)} |->
        LET last == CHOOSE i \in 1..Len(fieldnames) :
                        /\ fieldnames[i] = k
                        /\ \A j \in (i + 1)..Len(fieldnames) : fieldnames[j] # k
        IN  IF last <= Len(r) THEN r[last] ELSE None]

\* d.get(key, default)
get(d, key, default) == IF key \in DOMAIN d THEN d[key] ELSE default

NonEmptyRow(r) == r # <<>>

\* The dicts the reader yields: the first row names the fields, empty rows
\* are skipped.
DictReader(data_text) ==
    LET lines == split(data_text, "\n")
        rows == [i \in 1..Len(lines) |-> CsvRow(lines[i])]
        fieldnames == rows[1]
        data == SelectSeq(Tail(rows), NonEmptyRow)
    IN  [i \in 1..Len(data) |-> DictRow(fieldnames, data[i])]

(***************************************************************************)
(* parse_members.                                                          *)
(***************************************************************************)
\* Index (from 0) of the first line holding "Callsign", -1 without one.
HeaderIdx(lines) ==
    IF \A i \in 1..Len(lines) : ~Contains(lines[i], KeyCallsign)
    THEN -1
    ELSE (CHOOSE i \in 1..Len(lines) :
            /\ Contains(lines[i], KeyCallsign)
            /\ \A j \in 1..(i - 1) : ~Contains(lines[j], KeyCallsign)) - 1

\* .strip() of a field that is None raises AttributeError, which the
\* except ValueError clause does not catch.
RowRaises(d) ==
    \/ get(d, KeyCallsign, <<>>) = None
    \/ get(d, KeyName, <<>>) = None
    \/ get(d, KeyJoinDate, <<>>) = None
    \/ get(d, KeyQC, <<"0">>) = None

RowQC(d) ==
    LET f == strip(get(d, KeyQC, <<"0">>))
    IN  IF IsInt(f) THEN int(f) ELSE 0

\* if callsign and qc_number
RowKept(d) == strip(get(d, KeyCallsign, <<>>)) # <<>> /\ RowQC(d) # 0

RowMember(d) ==
    [callsign |-> strip(get(d, KeyCallsign, <<>>)),
     name |-> strip(get(d, KeyName, <<>>)),
     join_date |-> strip(get(d, KeyJoinDate, <<>>)),
     qc_number |-> RowQC(d)]

\* The for loop over the reader: the list appended to, or the exception.
RECURSIVE ParseRows(_)
ParseRows(ds) ==
    IF ds = <<>> THEN [raised |-> FALSE, members |-> <<>>]
    ELSE IF RowRaises(Head(ds)) THEN [raised |-> TRUE, members |-> <<>>]
    ELSE LET rest == ParseRows(Tail(ds))
         IN  IF rest.raised THEN rest
             ELSE IF RowKept(Head(ds))
                  THEN [rest EXCEPT !.members = <<RowMember(Head(ds))>> \o @]
                  ELSE rest

\* Insert that puts x in front of the elements of its own key: a sort that
\* does not keep the order of equal ranks.
InsertBefore(ms, x) ==
    LET n == Cardinality({i \in 1..Len(ms) : ms[i].qc_number < x.qc_number})
    IN  SubSeq(ms, 1, n) \o <<x>> \o SubSeq(ms, n + 1, Len(ms))

\* x put behind every element whose key is not larger: list.sort is stable.
Insert(ms, x) ==
    LET n == Cardinality({i \in 1..Len(ms) : ms[i].qc_number <= x.qc_number})
    IN  SubSeq(ms, 1, n) \o <<x>> \o SubSeq(ms, n + 1, Len(ms))

\* members.sort(key=lambda m: m["qc_number"])
RECURSIVE sort(_)
sort(ms) ==
    IF ms = <<>> THEN <<>>
    ELSE Insert(sort(SubSeq(ms, 1, Len(ms) - 1)), ms[Len(ms)])

\* DataText that keeps the lines above the header row: the reader then takes
\* the first line of the text for the header.
DataTextAll(lines, header_idx) == join(lines, <<"\n">>)

\* The text handed to the reader: lines[header_idx:] joined again.
DataText(lines, header_idx) ==
    join(SubSeq(lines, header_idx + 1, Len(lines)), <<"\n">>)

\* parse_members up to the end of its for loop: members before the sort.
parse_rows(text) ==
    LET lines == splitlines(text)
        header_idx == HeaderIdx(lines)
    IN  IF header_idx = -1 THEN [raised |-> FALSE, members |-> <<>>]
        ELSE ParseRows(DictReader(DataText(lines, header_idx)))

\* parse_members without line 82: the list is returned as the loop built it.
parse_members_unsorted(text) == parse_rows(text)

\* The whole function: the early return of the empty list, the exception
\* passing through, or the list sorted in place and returned.
parse_members(text) ==
    LET parsed == parse_rows(text)
    IN  IF parsed.raised \/ parsed.members = <<>> THEN parsed
        ELSE [parsed EXCEPT !.members = sort(@)]

(***************************************************************************)
(* render_member_row and generate_html.  A row is the record of the        *)
(* values the template interpolates; the fixed markup is left out.         *)
(***************************************************************************)
\* render_member_row with the two tests in the other order: the callsign
\* is looked at before the rank.
render_member_row_callsign_first(m) ==
    LET qc == m.qc_number
        tech == upper(m.callsign) = TechCallsign
        founder == ~tech /\ qc <= 3
    IN  [qc |-> qc,
         callsign |-> html_escape(m.callsign),
         name |-> html_escape(m.name),
         date |-> html_escape(format_date(m.join_date)),
         row_class |-> IF founder THEN "founder"
                       ELSE IF tech THEN "tech-guy" ELSE "",
         badge |-> IF founder THEN "Founder"
                   ELSE IF tech THEN "Resident Computer Guy" ELSE ""]

render_member_row(m) ==
    LET qc == m.qc_number
        founder == qc <= 3
        tech == ~founder /\ upper(m.callsign) = TechCallsign
    IN  [qc |-> qc,
         callsign |-> html_escape(m.callsign),
         name |-> html_escape(m.name),
         date |-> html_escape(format_date(m.join_date)),
         row_class |-> IF founder THEN "founder"
                       ELSE IF tech THEN "tech-guy" ELSE "",
         badge |-> IF founder THEN "Founder"
                   ELSE IF tech THEN "Resident Computer Guy" ELSE ""]

\* The document: the count text and the rows; the "last updated" time of
\* line 112 is read from the clock and is left out with the fixed markup.
generate_html(ms) ==
    LET count == Len(ms)
    IN  [count_text |-> str(count) \o <<" ","M","e","m","b","e","r">>
                        \o (IF count # 1 THEN <<"s">> ELSE <<>>),
         member_rows |-> [i \in 1..Len(ms) |-> render_member_row(ms[i])]]

(***************************************************************************)
(* The texts fetch_csv may return: at most MaxLead lines that precede the  *)
(* header row, a header row or none, at most MaxRows data rows.  A blank    *)
(* last row is a text that ends with a line boundary.                      *)
(***************************************************************************)
SeqsUpTo(S, n) == UNION {[1..k -> S] : k \in 0..n}

HeaderLine == join(<<KeyCallsign, KeyName, KeyJoinDate, KeyQC>>, <<",">>)

\* The i-th line above the header row: a title, a blank line, other cells.
LeadLine(i) ==
    IF i % 3 = 1 THEN <<"Q","R","Q">>
    ELSE IF i % 3 = 2 THEN <<>>
    ELSE <<"a",",","b">>

LeadLines(k) == [i \in 1..k |-> LeadLine(i)]

DataLines ==
    { <<"W","1","A","W",",","H","i","r","a","m",",","1","/","1","/","1","9","1","4",",","1">>,
      <<" ","K","7"," ",","," ","B","o"," ",",","2","0","2","4",","," ","7"," ">>,
      <<"w","6","j","s","v",",","<","J",">",",","3","/","4","/","2","0","2","4",",","5">>,
      <<"N","0",",",",",",","1">>,
      <<",","G",",","1","/","2","/","2","0","0","0",",","3">>,
      <<" ",",","S",",",",","4">>,
      <<"W","2",",","Z",",",",","0">>,
      <<"W","3",",","Y",",",",","x">>,
      <<"W","4",",","N",",",",","-","2">>,
      <<"W","5",",","Q">>,
      <<"C","a","l","l","s","i","g","n",",","C",",",",","6">>,
      <<>> }

CsvTexts ==
    { join(lead \o hdr \o data, <<"\n">>) :
        lead \in {LeadLines(k) : k \in 0..MaxLead},
        hdr \in { <<HeaderLine>>, <<>> },
        data \in SeqsUpTo(DataLines, MaxRows) }

(***************************************************************************)
(* main(): one action per step of the run.                                 *)
(***************************************************************************)
\* fetch_csv() returned the text.
FetchOk ==
    /\ pc = "start"
    /\ \E text \in CsvTexts : csv_text' = text
    /\ pc' = "fetched"
    /\ UNCHANGED <<members, html, roster_file, exit_code,
                   member, row, date_str, date_out>>

\* fetch_csv() raised: return 1.
FetchFail ==
    /\ pc = "start"
    /\ pc' = "fetch_error"
    /\ exit_code' = 1
    /\ UNCHANGED <<csv_text, members, html, roster_file,
                   member, row, date_str, date_out>>

\* Parse without the test of line 532: an empty list goes on to be rendered.
ParseNoCheck ==
    /\ pc = "fetched"
    /\ LET res == parse_members(csv_text)
       IN  IF res.raised
           THEN /\ pc' = "raised"
                /\ exit_code' = 1
                /\ UNCHANGED members
           ELSE /\ pc' = "parsed"
                /\ members' = res.members
                /\ UNCHANGED exit_code
    /\ UNCHANGED <<csv_text, html, roster_file, member, row, date_str, date_out>>

\* members = parse_members(csv_text); return 1 when the list is empty.  An
\* exception leaving parse_members is caught nowhere: the interpreter prints
\* the traceback and the process ends with status 1.
Parse ==
    /\ pc = "fetched"
    /\ LET res == parse_members(csv_text)
       IN  IF res.raised
           THEN /\ pc' = "raised"
                /\ exit_code' = 1
                /\ UNCHANGED members
           ELSE IF res.members = <<>>
           THEN /\ pc' = "no_members"
                /\ exit_code' = 1
                /\ members' = res.members
           ELSE /\ pc' = "parsed"
                /\ members' = res.members
                /\ UNCHANGED exit_code
    /\ UNCHANGED <<csv_text, html, roster_file, member, row, date_str, date_out>>

\* html = generate_html(members)
Generate ==
    /\ pc = "parsed"
    /\ html' = generate_html(members)
    /\ pc' = "rendered"
    /\ UNCHANGED <<csv_text, members, roster_file, exit_code,
                   member, row, date_str, date_out>>

\* open("roster.html", "w") creates the file or empties it.
Open ==
    /\ pc = "rendered"
    /\ roster_file' = Truncated
    /\ pc' = "opened"
    /\ UNCHANGED <<csv_text, members, html, exit_code,
                   member, row, date_str, date_out>>

\* f.write(html), the file is closed, return 0.
Write ==
    /\ pc = "opened"
    /\ roster_file' = Written(html)
    /\ pc' = "exit_ok"
    /\ exit_code' = 0
    /\ UNCHANGED <<csv_text, members, html,
                   member, row, date_str, date_out>>

NoMember == [callsign |-> <<>>, name |-> <<>>, join_date |-> <<>>, qc_number |-> 0]
NoRow == [qc |-> 0, callsign |-> <<>>, name |-> <<>>, date |-> <<>>,
          row_class |-> "", badge |-> ""]

Init ==
    /\ pc = "start"
    /\ csv_text = <<>>
    /\ members = <<>>
    /\ html = NoDoc
    /\ roster_file \in {Absent, OldDoc}
    /\ exit_code = NoExit
    /\ member = NoMember
    /\ row = NoRow
    /\ date_str = <<>>
    /\ date_out = <<>>

Next == FetchOk \/ FetchFail \/ Parse \/ Generate \/ Open \/ Write

Spec == Init /\ [][Next]_vars

(***************************************************************************)
(* render_member_row applied to one member record.                         *)
(***************************************************************************)
EscAlphabet == {"&", "<", ">", "\"", "a", ";"}

TextInputs ==
    SeqsUpTo(EscAlphabet, MaxTextLen)
      \cup { <<"<","s","c","r","i","p","t",">">>,
             <<"a","&","l","t",";","&","a","m","p",";">> }

CallsignInputs ==
    { <<"W","6","J","S","V">>, <<"w","6","j","s","v">>, <<"W","6","j","S","v">>,
      <<"W","6","J","S">>, <<"W","1","<","&">> }

JoinDateInputs ==
    { <<"3","/","4","/","2","0","2","4">>, <<"1","/","2","/","<","&",">">>,
      <<"\"","2","0","2","4","\"">> }

QCInputs == {-2, 1, 3, 4, 9}

MemberInputs ==
    [callsign : CallsignInputs, name : TextInputs,
     join_date : JoinDateInputs, qc_number : QCInputs]

InitRender ==
    /\ pc = "render"
    /\ member \in MemberInputs
    /\ row = NoRow
    /\ csv_text = <<>>
    /\ members = <<>>
    /\ html = NoDoc
    /\ roster_file = Absent
    /\ exit_code = NoExit
    /\ date_str = <<>>
    /\ date_out = <<>>

Render ==
    /\ pc = "render"
    /\ row' = render_member_row(member)
    /\ pc' = "render_done"
    /\ UNCHANGED <<csv_text, members, html, roster_file, exit_code,
                   member, date_str, date_out>>

NextRender == Render

SpecRender == InitRender /\ [][NextRender]_vars

(***************************************************************************)
(* format_date applied to one join date.                                   *)
(***************************************************************************)
DateAlphabet == {"0", "1", "2", "/", "x"}

DateInputs ==
    SeqsUpTo(DateAlphabet, MaxDateLen)
      \cup { <<"3","/","4","/","2","0","2","4">>,
             <<"2","0","2","4">>,
             <<"3","/","4","/","a","b","c","d">>,
             <<"1","3","/","1","/","2","0","2","4">>,
             <<"1","2","/","3","1","/","1","9","9","9">>,
             <<" ","3","/"," ","0","4"," ","/","2","4"," ">>,
             <<"-","1","/","1","/","2","0","0","0">>,
             <<"+","5","/","-","4","/","2","0","0","0">>,
             <<"5","/","6","/">>,
             <<"3","/","4","/","2","0","2","4","/","1">> }

InitDate ==
    /\ pc = "date"
    /\ date_str \in DateInputs
    /\ date_out = <<>>
    /\ csv_text = <<>>
    /\ members = <<>>
    /\ html = NoDoc
    /\ roster_file = Absent
    /\ exit_code = NoExit
    /\ member = NoMember
    /\ row = NoRow

FormatDate ==
    /\ pc = "date"
    /\ date_out' = format_date(date_str)
    /\ pc' = "date_done"
    /\ UNCHANGED <<csv_text, members, html, roster_file, exit_code,
                   member, row, date_str>>

NextDate == FormatDate

SpecDate == InitDate /\ [][NextDate]_vars

(***************************************************************************)
(* Notions the properties below are stated in.                             *)
(***************************************************************************)
\* parse_members has been called, and it returned or raised.
PastParse == pc \in {"parsed", "rendered", "opened", "exit_ok", "no_members", "raised"}

\* parse_members returned its list.
Returned == pc \in {"parsed", "rendered", "opened", "exit_ok", "no_members"}

\* generate_html returned the document.
Rendered == pc \in {"rendered", "opened", "exit_ok"}

Range(q) == {q[i] : i \in 1..Len(q)}

Count(q, x) == Cardinality({i \in 1..Len(q) : q[i] = x})

SameBag(q, r) == \A x \in Range(q) \cup Range(r) : Count(q, x) = Count(r, x)

\* The lines of a text from its first line holding the token "Callsign" on;
\* none when no line holds it.
RECURSIVE FromHeader(_)
FromHeader(lines) ==
    IF lines = <<>> THEN <<>>
    ELSE IF Contains(Head(lines), KeyCallsign) THEN lines
    ELSE FromHeader(Tail(lines))

HasHeader(text) == FromHeader(splitlines(text)) # <<>>

HeaderCells(text) == split(Head(FromHeader(splitlines(text))), ",")

\* The cells of the data rows: the non-blank lines below the header row.
IsDataLine(line) == line # <<>>

DataRows(text) ==
    LET below == SelectSeq(Tail(FromHeader(splitlines(text))), IsDataLine)
    IN  [i \in 1..Len(below) |-> split(below[i], ",")]

\* Row r has a cell in the column the header names k.
Carries(hdr, r, k) == \E i \in 1..Len(r) : i <= Len(hdr) /\ hdr[i] = k

Cell(hdr, r, k) == r[CHOOSE i \in 1..Len(r) : i <= Len(hdr) /\ hdr[i] = k]

CarriesAll(hdr, r) ==
    \A k \in {KeyCallsign, KeyName, KeyJoinDate, KeyQC} : Carries(hdr, r, k)

\* A row with all four fields is valid: callsign non-empty after trimming,
\* rank an integer other than zero.
ValidRow(hdr, r) ==
    /\ CarriesAll(hdr, r)
    /\ strip(Cell(hdr, r, KeyCallsign)) # <<>>
    /\ IsInt(Cell(hdr, r, KeyQC))
    /\ int(Cell(hdr, r, KeyQC)) # 0

RecordOf(hdr, r) ==
    [callsign |-> strip(Cell(hdr, r, KeyCallsign)),
     name |-> strip(Cell(hdr, r, KeyName)),
     join_date |-> strip(Cell(hdr, r, KeyJoinDate)),
     qc_number |-> int(Cell(hdr, r, KeyQC))]

\* The records of the valid rows of a text with a header row, in file order.
RECURSIVE RecordsOf(_, _)
RecordsOf(hdr, rows) ==
    IF rows = <<>> THEN <<>>
    ELSE (IF ValidRow(hdr, Head(rows)) THEN <<RecordOf(hdr, Head(rows))>> ELSE <<>>)
            \o RecordsOf(hdr, Tail(rows))

ValidRecords(text) == RecordsOf(HeaderCells(text), DataRows(text))

NonDecreasing(q) == \A i, j \in 1..Len(q) : i < j => q[i].qc_number <= q[j].qc_number

OfRank(q, n) == SelectSeq(q, LAMBDA m : m.qc_number = n)

(***************************************************************************)
(* C1: roster.html is opened or written only after fetch_csv returned and  *)
(* parse_members returned at least one record; a run that ends with exit   *)
(* code 1 leaves the file as it found it; exit code 0 comes only with the  *)
(* full document written.                                                  *)
(***************************************************************************)
Thm_C1_WriteOnlyOnSuccess ==
    /\ roster_file \notin {Absent, OldDoc} =>
          /\ pc \in {"opened", "exit_ok"}
          /\ members # <<>>
          /\ parse_members(csv_text) = [raised |-> FALSE, members |-> members]
    /\ exit_code = 1 =>
          /\ pc \in {"fetch_error", "no_members", "raised"}
          /\ roster_file \in {Absent, OldDoc}
    /\ exit_code = 0 =>
          /\ members # <<>>
          /\ roster_file = Written(generate_html(members))

\* The run failed on a text with a header row and left the old file alone.
Wit_C1_FailedRunOldFile ==
    /\ pc = "no_members"
    /\ exit_code = 1
    /\ HasHeader(csv_text)
    /\ DataRows(csv_text) # <<>>
    /\ roster_file = OldDoc

(***************************************************************************)
(* C2: for every text with a header row, the records parse_members keeps   *)
(* are exactly the records (trimmed callsign, name, join date, parsed      *)
(* rank) of the rows that carry all four fields, a callsign that is        *)
(* non-empty after trimming and a rank that parses to a non-zero integer.  *)
(***************************************************************************)
Cex_C2_KeepsExactlyValidRows ==
    (PastParse /\ HasHeader(csv_text)) => SameBag(members, ValidRecords(csv_text))

\* The same, for the runs in which parse_members returns.
Aux_C2_WhenReturned ==
    (Returned /\ HasHeader(csv_text)) => SameBag(members, ValidRecords(csv_text))

(***************************************************************************)
(* C3: the rendered rows are in non-decreasing order of rank, records of   *)
(* equal rank keep their order in the file, and the rows are a permutation *)
(* of the valid records.                                                   *)
(***************************************************************************)
Thm_C3_RenderedSortedStable ==
    Rendered =>
        LET fo == parse_rows(csv_text).members
            rows == html.member_rows
            n == Len(fo)
        IN  /\ Len(rows) = n
            /\ \E p \in [1..n -> 1..n] :
                  /\ \A i, j \in 1..n : i # j => p[i] # p[j]
                  /\ \A i \in 1..n : rows[i] = render_member_row(fo[p[i]])
                  /\ \A i, j \in 1..n : i < j =>
                        /\ rows[i].qc <= rows[j].qc
                        /\ rows[i].qc = rows[j].qc => p[i] < p[j]

\* A roster was written whose first two rows differ and share a rank, and
\* whose records the sort had to reorder.
Wit_C3_TieRendered ==
    /\ pc = "exit_ok"
    /\ Len(html.member_rows) >= 2
    /\ html.member_rows[1].qc = html.member_rows[2].qc
    /\ html.member_rows[1] # html.member_rows[2]

(***************************************************************************)
(* C4: render_member_row gives exactly one classification: founder when    *)
(* rank <= 3, whatever the callsign; special-role when rank > 3 and the    *)
(* callsign is W6JSV in any letter case; none otherwise.                   *)
(***************************************************************************)
SameLetter(a, b) ==
    \/ a = b
    \/ \E i \in 1..Len(Lower) : {a, b} = {Lower[i], UpperCase[i]}

EqualIgnoringCase(a, b) ==
    /\ Len(a) = Len(b)
    /\ \A i \in 1..Len(a) : SameLetter(a[i], b[i])

Thm_C4_Classification ==
    pc = "render_done" =>
        LET isTech == EqualIgnoringCase(member.callsign, TechCallsign)
        IN  IF member.qc_number <= 3
            THEN row.row_class = "founder" /\ row.badge = "Founder"
            ELSE IF isTech
            THEN row.row_class = "tech-guy" /\ row.badge = "Resident Computer Guy"
            ELSE row.row_class = "" /\ row.badge = ""

\* W6JSV in lower case with a founder's rank was rendered as a founder.
Wit_C4_FounderOverridesTech ==
    /\ pc = "render_done"
    /\ member.callsign = <<"w","6","j","s","v">>
    /\ member.qc_number = 1
    /\ row.row_class = "founder"

(***************************************************************************)
(* C5: format_date returns its argument unchanged when it does not split   *)
(* on "/" into exactly three parts, when the month is outside 1..12, or    *)
(* when the month, the day or the year fails integer parsing; otherwise it *)
(* returns "Mon D, YYYY".                                                  *)
(***************************************************************************)
Cex_C5_YearMustParse ==
    pc = "date_done" =>
        LET parts == split(date_str, "/")
            numeric == Len(parts) = 3 /\ \A i \in 1..3 : IsInt(parts[i])
        IN  IF numeric /\ int(parts[1]) \in 1..12
            THEN date_out = MONTHS[int(parts[1])] \o <<" ">> \o str(int(parts[2]))
                                \o <<",", " ">> \o parts[3]
            ELSE date_out = date_str

\* What format_date does: the year is copied, never parsed.
Aux_C5_YearCopied ==
    pc = "date_done" =>
        LET parts == split(date_str, "/")
            numeric == Len(parts) = 3 /\ IsInt(parts[1]) /\ IsInt(parts[2])
        IN  IF numeric /\ int(parts[1]) \in 1..12
            THEN date_out = MONTHS[int(parts[1])] \o <<" ">> \o str(int(parts[2]))
                                \o <<",", " ">> \o parts[3]
            ELSE date_out = date_str

\* The two dates the specification names came out as it says.
Aux_C5_Examples ==
    pc = "date_done" =>
        /\ date_str = <<"3","/","4","/","2","0","2","4">> =>
              date_out = <<"M","a","r"," ","4",","," ","2","0","2","4">>
        /\ date_str = <<"2","0","2","4">> => date_out = date_str

(***************************************************************************)
(* C6: a malformed data row never aborts parsing: with a header row in the *)
(* text no error is raised, the valid records of the other rows are        *)
(* returned, and when every row is malformed the run ends with exit code 1 *)
(* through the zero-members path.                                          *)
(***************************************************************************)
Cex_C6_MalformedRowDropped ==
    (PastParse /\ HasHeader(csv_text)) =>
        /\ pc # "raised"
        /\ SameBag(members, ValidRecords(csv_text))
        /\ ValidRecords(csv_text) = <<>> => (pc = "no_members" /\ exit_code = 1)

(***************************************************************************)
(* C7: every record parse_members returns, and every rendered row, has a   *)
(* rank that is a positive integer.                                        *)
(***************************************************************************)
Cex_C7_RankPositive ==
    /\ Returned => \A i \in 1..Len(members) : members[i].qc_number >= 1
    /\ Rendered => \A i \in 1..Len(html.member_rows) : html.member_rows[i].qc >= 1

\* What the validity test gives: a rank other than zero.
Aux_C7_RankNonZero ==
    Returned => \A i \in 1..Len(members) : members[i].qc_number # 0

(***************************************************************************)
(* C8: the first line holding the token "Callsign" is the header row: the  *)
(* result for a text is the result for the text without the lines above    *)
(* that row, and without such a line the result is the empty list, with no *)
(* error raised.                                                           *)
(***************************************************************************)
Thm_C8_LeadingLinesIgnored ==
    PastParse =>
        LET lines == splitlines(csv_text)
            cut == parse_members(join(FromHeader(lines), <<"\n">>))
        IN  /\ (pc = "raised") = cut.raised
            /\ members = cut.members
            /\ FromHeader(lines) = <<>> => (pc = "no_members" /\ members = <<>>)

\* Two lines, the header row and the row of W1AW gave one record of rank 1.
Wit_C8_TwoLeadingLines ==
    /\ pc = "parsed"
    /\ csv_text = join(LeadLines(2) \o <<HeaderLine>> \o
            << <<"W","1","A","W",",","H","i","r","a","m",",",
                 "1","/","1","/","1","9","1","4",",","1">> >>, <<"\n">>)
    /\ members = << [callsign |-> <<"W","1","A","W">>,
                     name |-> <<"H","i","r","a","m">>,
                     join_date |-> <<"1","/","1","/","1","9","1","4">>,
                     qc_number |-> 1] >>

(***************************************************************************)
(* C9: the callsign, name and formatted join date of a rendered row hold   *)
(* no raw <, > or double quote, every & in them starts one of the entities *)
(* &amp; &lt; &gt; &quot;, and decoding the entities once gives back the    *)
(* text that was escaped.                                                  *)
(***************************************************************************)
Entities ==
    { <<"&","a","m","p",";">>, <<"&","l","t",";">>,
      <<"&","g","t",";">>, <<"&","q","u","o","t",";">> }

EntityChar(e) ==
    IF e = <<"&","a","m","p",";">> THEN "&"
    ELSE IF e = <<"&","l","t",";">> THEN "<"
    ELSE IF e = <<"&","g","t",";">> THEN ">"
    ELSE "\""

StartsWith(s, e) == Len(s) >= Len(e) /\ SubSeq(s, 1, Len(e)) = e

\* s with each entity replaced by its character, read left to right once.
RECURSIVE Decode(_)
Decode(s) ==
    IF s = <<>> THEN <<>>
    ELSE IF \E e \in Entities : StartsWith(s, e)
    THEN LET e == CHOOSE x \in Entities : StartsWith(s, x)
         IN  <<EntityChar(e)>> \o Decode(SubSeq(s, Len(e) + 1, Len(s)))
    ELSE <<Head(s)>> \o Decode(Tail(s))

NoLiveMarkup(s) ==
    \A i \in 1..Len(s) :
        /\ s[i] \notin {"<", ">", "\""}
        /\ s[i] = "&" => \E e \in Entities : StartsWith(SubSeq(s, i, Len(s)), e)

EscapedOnce(out, text) == NoLiveMarkup(out) /\ Decode(out) = text

Thm_C9_RowTextEscaped ==
    pc = "render_done" =>
        /\ EscapedOnce(row.callsign, member.callsign)
        /\ EscapedOnce(row.name, member.name)
        /\ EscapedOnce(row.date, format_date(member.join_date))

\* The name <script> was rendered as &lt;script&gt;.
Wit_C9_ScriptName ==
    /\ pc = "render_done"
    /\ member.name = <<"<","s","c","r","i","p","t",">">>
    /\ row.name = <<"&","l","t",";","s","c","r","i","p","t","&","g","t",";">>

(***************************************************************************)
(* C10: the list parse_members returns holds the valid records in file     *)
(* order, not yet sorted by rank.                                          *)
(***************************************************************************)
Cex_C10_ReturnedInFileOrder ==
    (Returned /\ HasHeader(csv_text)) => members = ValidRecords(csv_text)

(***************************************************************************)
(* C10, amended: the list parse_members returns holds the valid records    *)
(* sorted by rank inside parse_members itself: ranks do not decrease, and  *)
(* the records of one rank are those of the file, in file order.           *)
(***************************************************************************)
Thm_C10_ReturnedSorted ==
    (Returned /\ HasHeader(csv_text)) =>
        LET valid == ValidRecords(csv_text)
        IN  /\ NonDecreasing(members)
            /\ Len(members) = Len(valid)
            /\ \A m \in Range(members) \cup Range(valid) :
                  OfRank(members, m.qc_number) = OfRank(valid, m.qc_number)

\* parse_members returned a list that is not in file order.
Wit_C10_Reordered ==
    /\ pc = "parsed"
    /\ HasHeader(csv_text)
    /\ members # ValidRecords(csv_text)

====
